---------------------------- MODULE Spec2Model ----------------------------
(***************************************************************************)
(* Model of gnfs/poly/stage1/stage1_sieve_gpu_sq.c (msieve): the batch     *)
(* buffer p_soa_var_t, the reducer check_found, the batching driver        *)
(* sieve_lattice_batch / sieve_specialq_64 and the range scanner           *)
(* sieve_lattice_gpu_sq.                                                   *)
(*                                                                         *)
(* TLC's integers are 32-bit signed, so the machine word of the scanner    *)
(* (uint32) is modelled UintBits wide and every comparison is made against *)
(* 2^UintBits - 1; the reducer's words are WordBits wide (p), 2*WordBits   *)
(* (proot, offset, p2) and 4*WordBits (the residue).                       *)
(***************************************************************************)
EXTENDS Integers, Sequences, FiniteSets, TLC

(***************************************************************************)
(* Bounds of the model.                                                    *)
(***************************************************************************)
UintBits == 26
MaxQChunks == 6
MaxPChunks == 6
MaxSqChunks == 2
MaxDrop == 1
MaxHits == 1
MaxHandled == 1
MaxCount == 2
MaxLog == 26

(***************************************************************************)
(* Program constants.                                                      *)
(***************************************************************************)
HOST_P_BATCH_MIN == 10000
HOST_Q_BATCH_MIN == 50000
HOST_SQ_BATCH_FACTOR == 12
HOST_Q_BATCH_FACTOR == 12
MAX_ROUNDS == 3
KERNEL_48_BITS == 24
\* stage1_core_sq.h and stage1.h are not among the source files: the device
\* capacities and the scale factor P_SCALE = P_SCALE_NUM / P_SCALE_DEN are
\* parameters of the model.
Q_SOA_BATCH_SIZE == 34560
P_SOA_BATCH_SIZE == 2048
SPECIALQ_BATCH_SIZE == 256
P_SCALE_NUM == 3
P_SCALE_DEN == 2

UINT32_MAX == 2^UintBits - 1

MIN(a, b) == IF a < b THEN a ELSE b
MAX(a, b) == IF a > b THEN a ELSE b

\* A history counter, capped.
Inc(x) == IF x < MaxCount THEN x + 1 ELSE x

\* (uint32)(x): a value of the unsigned type keeps its low bits.
U32(x) == x % (UINT32_MAX + 1)

(***************************************************************************)
(* The device: cuFuncGetAttribute(MAX_THREADS_PER_BLOCK) and               *)
(* gpu_info->num_compute_units.                                            *)
(***************************************************************************)
Devices == { [tpb |-> 2, ncu |-> 1], [tpb |-> 2, ncu |-> 2],
             [tpb |-> 1024, ncu |-> 12] }

VARIABLES
    pc,         \* position of the control thread
    stop,       \* obj->flags & MSIEVE_FLAG_STOP_SIEVING
    expired,    \* time(NULL) - L->start_time > L->deadline
    input,      \* the caller's inputs and the device
    scan,       \* locals of sieve_lattice_gpu_sq
    sq,         \* locals of sieve_specialq_64 and the fields of L it sets
    gpu,        \* state of the four device buffers
    gen,        \* the three generators (sieve_fb_t)
    b,          \* locals of sieve_lattice_batch
    h,          \* history of the run
    soa,        \* a batch buffer (p_soa_var_t) under test, with its history
    fnd         \* a run of check_found: the records, the index, the calls

vars == <<pc, stop, expired, input, scan, sq, gpu, gen, b, h, soa, fnd>>


(***************************************************************************)
(* Inputs.  sqrt4 is sqrt(p_size_max / special_q_max) in quarters; nq, np  *)
(* and nsq are the numbers of (value, root) candidates the large, small    *)
(* and special generators yield after a sieve_fb_reset.                    *)
(***************************************************************************)
GuardEdge == (UINT32_MAX * P_SCALE_DEN) \div P_SCALE_NUM
SlideEdge == (GuardEdge * P_SCALE_DEN) \div P_SCALE_NUM

SqrtInputs == { 0, 4 * 40, 4 * SlideEdge, 4 * SlideEdge + 4, 4 * GuardEdge,
                4 * GuardEdge + 3, 4 * GuardEdge + 4, 4 * (UINT32_MAX + 1) }

\* Values an out-of-range double -> uint32 conversion may produce.
UBVals == { 0, 1, UINT32_MAX }

FoundSize(d) == d.tpb * d.ncu
HostQCap(d) == MAX(HOST_Q_BATCH_MIN, HOST_Q_BATCH_FACTOR * FoundSize(d))
HostPCap(d) == MAX(HOST_P_BATCH_MIN, FoundSize(d) \div 3)
HostSqCap == SPECIALQ_BATCH_SIZE * HOST_SQ_BATCH_FACTOR

LargeTotals(d) ==
    { n \in { 0, d.tpb - 1, d.tpb, 2 * d.tpb + 1, HostQCap(d) + d.tpb } :
        n <= MaxQChunks * MIN(3 * FoundSize(d), Q_SOA_BATCH_SIZE) }
SmallTotals(d) ==
    { n \in { 0, 1, FoundSize(d) \div 3 + 1, HostPCap(d) + 1 } :
        n <= MaxPChunks * MAX(1, MIN(FoundSize(d) \div 3, P_SOA_BATCH_SIZE)) }
SpecialTotals ==
    { n \in { 0, 1, SPECIALQ_BATCH_SIZE + 1, HostSqCap + 1 } :
        n <= MaxSqChunks * SPECIALQ_BATCH_SIZE }

BaseSqrt4 == 4 * 40

\* sizeof(gpu_ptr) of the build, and lattice_size as two 32-bit halves.
PtrSizes == { 4, 8 }
LatticeVals == [lo : { 0, 5, UINT32_MAX }, hi : { 0, 1, UINT32_MAX }]
BasePtr == 8
BaseLattice == [lo |-> 5, hi |-> 0]
SmallDevices == { d \in Devices : HostQCap(d) = HOST_Q_BATCH_MIN }
BigDevices == Devices \ SmallDevices

\* Every combination of generator totals on the small devices, every
\* scanner input on one small configuration, and full host buffers on the
\* big device (with a scanner input that allows a single round).
Inputs ==
    UNION { [sqrt4 : {BaseSqrt4}, dev : {d}, nq : LargeTotals(d),
             np : SmallTotals(d), nsq : SpecialTotals,
             ptr : {BasePtr}, lattice : {BaseLattice}] : d \in SmallDevices }
    \cup
    UNION { [sqrt4 : SqrtInputs, dev : {d}, nq : {d.tpb + 1},
             np : {1}, nsq : {1}, ptr : {BasePtr}, lattice : {BaseLattice}] :
            d \in { e \in SmallDevices : e.ncu > 1 } }
    \cup
    UNION { [sqrt4 : {4 * GuardEdge}, dev : {d},
             nq : { HostQCap(d) + d.tpb } \cap LargeTotals(d),
             np : { 1, HostPCap(d) + 1 } \cap SmallTotals(d),
             nsq : { 1 }, ptr : {BasePtr}, lattice : {BaseLattice}] :
            d \in BigDevices }
    \cup
    UNION { [sqrt4 : {BaseSqrt4}, dev : {d}, nq : {d.tpb + 1},
             np : {1}, nsq : {1}, ptr : PtrSizes, lattice : LatticeVals] :
            d \in { e \in SmallDevices : e.ncu > 1 } }

(***************************************************************************)
(* Initial values of the records.                                          *)
(***************************************************************************)
SPECIAL_Q_MIN == 1
SPECIAL_Q_MAX == 100
ScanInit == [i |-> 0, quit |-> 0, large_p_min |-> 0, large_p_max |-> 0,
             small_p_min |-> 0, small_p_max |-> 0, ret |-> -1,
             special_q_min |-> SPECIAL_Q_MIN,
             special_q_max |-> SPECIAL_Q_MAX, fb_init |-> FALSE]

SqIdle == [quit |-> 0, threads_per_block |-> 0, found_array_size |-> 0,
           host_p_batch_size |-> 0, host_q_batch_size |-> 0,
           host_sq_batch_size |-> 0, gpu_kernel |-> "none",
           lattice_size |-> [lo |-> 0, hi |-> 0],
           q_num_p |-> 0, p_num_p |-> 0, sq_num_p |-> 0, ret |-> -1]

BufNone == [state |-> "none", allocs |-> 0, frees |-> 0]
GpuInit == [gpu_p_array |-> BufNone, gpu_q_array |-> BufNone,
            gpu_sq_array |-> BufNone, gpu_found_array |-> BufNone]

GenInit == [large |-> 0, small |-> 0, special |-> 0]

\* A transfer buffer holds, in its first n entries, the host entries
\* from .. from + n - 1 of the last memcpy into it.
NoCopy == [from |-> 0, n |-> 0]
NoLookup == [k |-> -1, index |-> -1]

\* params, param_size, set: the kernel's parameter block.  log: the
\* launches of the call so far, each with the chunks the kernel was given.
BatchIdle == [num_q_done |-> 0, num_p_done |-> 0, num_sq_done |-> 0,
              curr_num_q |-> 0, curr_num_p |-> 0, curr_num_sq |-> 0,
              num_blocks |-> 0, ret |-> -1,
              gpu_kernel |-> "none", params |-> <<>>, param_size |-> 0,
              set |-> [num_q |-> 0, num_p |-> 0, num_sq |-> 0,
                       lattice_size |-> [lo |-> 0, hi |-> 0]],
              q_marshall |-> NoCopy, p_marshall |-> NoCopy,
              sq_marshall |-> NoCopy,
              log |-> <<>>, truncated |-> FALSE]

\* What is reset when an invocation of sieve_specialq_64 starts.
HistRound == [launches |-> 0, after_stop |-> 0, after_saw |-> 0,
              saw_stop |-> FALSE, saw_deadline |-> FALSE, handled |-> 0,
              batch_calls |-> 0, q_chunks |-> 0, p_chunks |-> 0,
              dl_polls |-> 0, started_expired |-> FALSE,
              exhausted |-> FALSE, selects |-> 0, kernels |-> {},
              grids |-> {}, lookup |-> NoLookup]
HistInit == [rounds |-> 0, cfg_error |-> FALSE, guard_ub |-> FALSE,
             any_stopped |-> FALSE, r |-> HistRound]

\* The buffer and the reducer run are not part of the driver's state, and
\* the driver is not part of theirs.
IdleInput == [sqrt4 |-> 0, dev |-> [tpb |-> 1, ncu |-> 1],
              nq |-> 0, np |-> 0, nsq |-> 0, ptr |-> BasePtr,
              lattice |-> BaseLattice]
SoaIdle == [num_p |-> 0, num_p_alloc |-> 0, p |-> <<>>, root |-> <<>>,
            since |-> <<>>, reset_from |-> "never",
            last |-> [op |-> "none", num_roots |-> 0, stored |-> 0]]
FndIdle == [found_array |-> <<>>, sq_offset |-> 0, i |-> 0, calls |-> <<>>]

Init ==
    /\ pc = "scan_guard"
    /\ stop \in BOOLEAN
    /\ expired \in BOOLEAN
    /\ input \in Inputs
    /\ scan = ScanInit
    /\ sq = SqIdle
    /\ gpu = GpuInit
    /\ gen = GenInit
    /\ b = BatchIdle
    /\ h = HistInit
    /\ soa = SoaIdle
    /\ fnd = FndIdle

(***************************************************************************)
(* The environment: the stop flag is raised by a signal handler and is     *)
(* never cleared by this code; wall-clock time only moves forward.         *)
(***************************************************************************)
Running == pc \notin {"done", "fatal"}

SetStop ==
    /\ Running
    /\ ~stop
    /\ stop' = TRUE
    /\ UNCHANGED <<soa, fnd, pc, expired, input, scan, sq, gpu, gen, b, h>>

Expire ==
    /\ Running
    /\ ~expired
    /\ expired' = TRUE
    /\ UNCHANGED <<soa, fnd, pc, stop, input, scan, sq, gpu, gen, b, h>>

(***************************************************************************)
(* Chunk sizes of sieve_lattice_batch.                                     *)
(***************************************************************************)
\* A large-value chunk that is not rounded to the block size.
CurrNumQUnrounded ==
    MIN(MIN(3 * sq.found_array_size, sq.q_num_p - b.num_q_done),
        Q_SOA_BATCH_SIZE)

CurrNumQ ==
    LET c1 == MIN(3 * sq.found_array_size, sq.q_num_p - b.num_q_done)
        c2 == MIN(c1, Q_SOA_BATCH_SIZE)
    IN  c2 - (c2 % sq.threads_per_block)

\* A small-value chunk that is not cut to the transfer buffer.
CurrNumPUncut == MIN(sq.found_array_size \div 3, sq.p_num_p - b.num_p_done)

CurrNumP ==
    MIN(MIN(sq.found_array_size \div 3, sq.p_num_p - b.num_p_done),
        P_SOA_BATCH_SIZE)

CurrNumSq == MIN(SPECIALQ_BATCH_SIZE, sq.sq_num_p - b.num_sq_done)

\* A grid that always has one block per compute unit.
NumBlocksFull(curr_num_q) == input.dev.ncu

NumBlocks(curr_num_q) ==
    IF curr_num_q < sq.found_array_size
    THEN curr_num_q \div sq.threads_per_block
    ELSE input.dev.ncu

(***************************************************************************)
(* CUDA_TRY: a failing accelerator operation is fatal; nothing after it    *)
(* runs, in particular none of the cuMemFree calls.                        *)
(***************************************************************************)
CudaPcs == { "select_kernel", "alloc_p", "alloc_q", "alloc_sq", "func_attr",
             "alloc_found", "batch_enter", "q_loop", "p_loop", "sq_loop",
             "launch", "reduce", "free_p", "free_q", "free_sq", "free_found" }

CudaFail ==
    /\ pc \in CudaPcs
    /\ pc = "q_loop" => b.num_q_done < sq.q_num_p /\ CurrNumQ > 0
    /\ pc = "p_loop" => b.num_p_done < sq.p_num_p
    /\ pc = "sq_loop" => b.num_sq_done < sq.sq_num_p
    /\ pc' = "fatal"
    /\ UNCHANGED <<soa, fnd, stop, expired, input, scan, sq, gpu, gen, b, h>>


(***************************************************************************)
(* sieve_lattice_gpu_sq: the configuration guard and the initial ranges.   *)
(***************************************************************************)
\* (uint32)sqrt(p_size_max): the conversion truncates; out of range it is
\* undefined.
SqrtCasts ==
    IF input.sqrt4 \div 4 <= UINT32_MAX THEN { input.sqrt4 \div 4 } ELSE UBVals

\* x * P_SCALE > (uint32)(-1), compared as doubles.
ExceedsMax(x) == x * P_SCALE_NUM > UINT32_MAX * P_SCALE_DEN

GuardFires(g) == ExceedsMax(g)

\* uint32 = x * P_SCALE and uint32 = x / P_SCALE.
MulScale(x) == (x * P_SCALE_NUM) \div P_SCALE_DEN
DivScale(x) == (x * P_SCALE_DEN) \div P_SCALE_NUM
MulScaleCasts(x) ==
    IF MulScale(x) <= UINT32_MAX THEN { MulScale(x) } ELSE UBVals

\* The value returned when the guard fires.
GuardReturn == 0

ScanGuard ==
    /\ pc = "scan_guard"
    /\ \E g \in SqrtCasts :
         IF GuardFires(g)
         THEN /\ pc' = "done"
              /\ scan' = [scan EXCEPT !.ret = GuardReturn]
              /\ h' = [h EXCEPT !.cfg_error = TRUE,
                                !.guard_ub = input.sqrt4 \div 4 > UINT32_MAX]
         ELSE \E lmin \in SqrtCasts : \E lmax \in MulScaleCasts(lmin) :
              /\ pc' = "round"
              /\ scan' = [scan EXCEPT
                            !.large_p_min = lmin,
                            !.large_p_max = lmax,
                            !.small_p_max = U32(lmin - 1),
                            !.small_p_min = DivScale(U32(lmin - 1)),
                            !.fb_init = TRUE,
                            !.i = 0]
              /\ h' = [h EXCEPT !.guard_ub = input.sqrt4 \div 4 > UINT32_MAX]
    /\ UNCHANGED <<soa, fnd, stop, expired, input, sq, gpu, gen, b>>

(***************************************************************************)
(* sieve_specialq_64: kernel choice and allocation.                        *)
(***************************************************************************)
\* The two variants the wrong way round.
KernelForSwapped(large_p_max) ==
    IF large_p_max < 2^KERNEL_48_BITS THEN "sieve_kernel_64"
    ELSE "sieve_kernel_48"

KernelFor(large_p_max) ==
    IF large_p_max < 2^KERNEL_48_BITS THEN "sieve_kernel_48"
    ELSE "sieve_kernel_64"

SqSelectKernel ==
    /\ pc = "select_kernel"
    /\ sq' = [SqIdle EXCEPT !.gpu_kernel = KernelFor(scan.large_p_max)]
    /\ h' = [h EXCEPT !.r.selects = Inc(@)]
    /\ pc' = "alloc_p"
    /\ UNCHANGED <<soa, fnd, stop, expired, input, scan, gpu, gen, b>>

Alloc(buf) == [state |-> "alloc", allocs |-> buf.allocs + 1,
               frees |-> buf.frees]
Free(buf) == [state |-> "freed", allocs |-> buf.allocs,
              frees |-> buf.frees + 1]

SqAllocP ==
    /\ pc = "alloc_p"
    /\ gpu' = [gpu EXCEPT !.gpu_p_array = Alloc(@)]
    /\ pc' = "alloc_q"
    /\ UNCHANGED <<soa, fnd, stop, expired, input, scan, sq, gen, b, h>>

SqAllocQ ==
    /\ pc = "alloc_q"
    /\ gpu' = [gpu EXCEPT !.gpu_q_array = Alloc(@)]
    /\ pc' = "alloc_sq"
    /\ UNCHANGED <<soa, fnd, stop, expired, input, scan, sq, gen, b, h>>

SqAllocSq ==
    /\ pc = "alloc_sq"
    /\ gpu' = [gpu EXCEPT !.gpu_sq_array = Alloc(@)]
    /\ pc' = "func_attr"
    /\ UNCHANGED <<soa, fnd, stop, expired, input, scan, sq, gen, b, h>>

SqFuncAttr ==
    /\ pc = "func_attr"
    /\ sq' = [sq EXCEPT !.threads_per_block = input.dev.tpb,
                        !.found_array_size = input.dev.tpb * input.dev.ncu]
    /\ pc' = "alloc_found"
    /\ UNCHANGED <<soa, fnd, stop, expired, input, scan, gpu, gen, b, h>>

\* lattice_size = 2 * sieve_size / special_q_max^2 / small_p_max^2 as a
\* uint64; sieve_size is the caller's, so any 64-bit value can result.
LatticeSize == input.lattice

\* cuMemAlloc of the output buffer, the host batch sizes, p_soa_var_init of
\* the three host buffers, lattice_size and sieve_fb_reset of the large
\* generator.
SqAllocFound ==
    /\ pc = "alloc_found"
    /\ gpu' = [gpu EXCEPT !.gpu_found_array = Alloc(@)]
    /\ sq' = [sq EXCEPT
                !.host_p_batch_size =
                    MAX(HOST_P_BATCH_MIN, sq.found_array_size \div 3),
                !.host_q_batch_size =
                    MAX(HOST_Q_BATCH_MIN,
                        HOST_Q_BATCH_FACTOR * sq.found_array_size),
                !.host_sq_batch_size =
                    SPECIALQ_BATCH_SIZE * HOST_SQ_BATCH_FACTOR,
                !.lattice_size = LatticeSize,
                !.q_num_p = 0, !.p_num_p = 0, !.sq_num_p = 0]
    /\ gen' = [gen EXCEPT !.large = input.nq]
    /\ pc' = "fill_q"
    /\ UNCHANGED <<soa, fnd, stop, expired, input, scan, b, h>>


(***************************************************************************)
(* The host batch loops of sieve_specialq_64.  A fill is p_soa_var_reset   *)
(* followed by sieve_fb_next calls until the generator is done or the      *)
(* buffer is full; store_p_soa drops the roots that do not fit.            *)
(***************************************************************************)
\* A count that includes the call that reported the end.
FillCountOneMore(left, cap) == MIN(left + 1, cap)

\* The number of entries a fill leaves in the buffer.
FillCount(left, cap) == MIN(left, cap)

\* What the generator has left after a fill that dropped d roots.
FillLeft(left, cap, d) == IF left <= cap THEN 0 ELSE left - cap - d

Drops(left, cap) == 0 .. MIN(MaxDrop, MAX(0, left - cap))

FillQ ==
    /\ pc = "fill_q"
    /\ \E d \in Drops(gen.large, sq.host_q_batch_size) :
         LET n == FillCount(gen.large, sq.host_q_batch_size) IN
         /\ sq' = [sq EXCEPT !.q_num_p = n]
         /\ IF n < sq.threads_per_block
            THEN /\ pc' = "free_p"
                 /\ gen' = [gen EXCEPT
                       !.large = FillLeft(@, sq.host_q_batch_size, d)]
                 /\ h' = [h EXCEPT !.r.exhausted = TRUE]
            ELSE /\ pc' = "fill_p"
                 /\ gen' = [gen EXCEPT
                       !.large = FillLeft(@, sq.host_q_batch_size, d),
                       !.small = input.np]
                 /\ h' = h
    /\ UNCHANGED <<soa, fnd, stop, expired, input, scan, gpu, b>>

FillP ==
    /\ pc = "fill_p"
    /\ \E d \in Drops(gen.small, sq.host_p_batch_size) :
         LET n == FillCount(gen.small, sq.host_p_batch_size) IN
         /\ sq' = [sq EXCEPT !.p_num_p = n]
         /\ IF n = 0
            THEN /\ pc' = "fill_q"
                 /\ gen' = [gen EXCEPT
                       !.small = FillLeft(@, sq.host_p_batch_size, d)]
            ELSE /\ pc' = "fill_sq"
                 /\ gen' = [gen EXCEPT
                       !.small = FillLeft(@, sq.host_p_batch_size, d),
                       !.special = input.nsq]
    /\ UNCHANGED <<soa, fnd, stop, expired, input, scan, gpu, b, h>>

FillSq ==
    /\ pc = "fill_sq"
    /\ \E d \in Drops(gen.special, sq.host_sq_batch_size) :
         LET n == FillCount(gen.special, sq.host_sq_batch_size) IN
         /\ sq' = [sq EXCEPT !.sq_num_p = n]
         /\ gen' = [gen EXCEPT
               !.special = FillLeft(@, sq.host_sq_batch_size, d)]
         /\ pc' = IF n = 0 THEN "fill_p" ELSE "batch_enter"
    /\ UNCHANGED <<soa, fnd, stop, expired, input, scan, gpu, b, h>>

(***************************************************************************)
(* sieve_lattice_batch.                                                    *)
(***************************************************************************)
\* CUDA_ALIGN_PARAM left out: the offset is used as it is.
AlignParamNone(offset, alignment) == offset

\* CUDA_ALIGN_PARAM(offset, alignment): the offset rounded up to a multiple
\* of the alignment.
AlignParam(offset, alignment) ==
    ((offset + alignment - 1) \div alignment) * alignment

\* The fields in the order in which lines 126-165 place them.
ParamFields == << [name |-> "gpu_p_array", type |-> "ptr"],
                  [name |-> "num_p", type |-> "uint32"],
                  [name |-> "gpu_q_array", type |-> "ptr"],
                  [name |-> "num_q", type |-> "uint32"],
                  [name |-> "gpu_sq_array", type |-> "ptr"],
                  [name |-> "num_sq", type |-> "uint32"],
                  [name |-> "lattice_size", type |-> "uint64"],
                  [name |-> "gpu_found_array", type |-> "ptr"] >>

\* sizeof and __alignof of a field's type.
SizeOf(type) ==
    IF type = "ptr" THEN input.ptr ELSE IF type = "uint32" THEN 4 ELSE 8
AlignOf(type) == SizeOf(type)

\* The number of bytes cuParamSeti sets: its value is an unsigned int.
SetiBytes == 4

\* cuParamSeti(gpu_kernel, offset, value) with a 64-bit argument: the
\* argument is converted to unsigned int.
cuParamSeti(value) == [lo |-> value.lo, hi |-> 0]

\* The bytes written into a field's slot.
WrittenBytes(type) == IF type = "ptr" THEN SizeOf("ptr") ELSE SetiBytes

\* CUDA_ALIGN_PARAM(i, ...); the field at i; i += sizeof(...), for the
\* fields from position n on.
RECURSIVE BindFrom(_, _)
BindFrom(n, i) ==
    IF n > Len(ParamFields) THEN <<>>
    ELSE LET f == ParamFields[n]
             at == AlignParam(i, AlignOf(f.type))
         IN  << [name |-> f.name, type |-> f.type, offset |-> at,
                 size |-> SizeOf(f.type),
                 written |-> WrittenBytes(f.type)] >>
             \o BindFrom(n + 1, at + SizeOf(f.type))

\* The value of i passed to cuParamSetSize.
ParamEnd(params) ==
    IF params = <<>> THEN 0
    ELSE params[Len(params)].offset + params[Len(params)].size

\* Parameter binding and num_q_done = 0.  The transfer buffers belong to L
\* and keep their contents.
BatchEnter ==
    /\ pc = "batch_enter"
    /\ b' = [BatchIdle EXCEPT
               !.gpu_kernel = sq.gpu_kernel,
               !.params = BindFrom(1, 0),
               !.param_size = ParamEnd(BindFrom(1, 0)),
               !.set = [num_q |-> b.set.num_q, num_p |-> b.set.num_p,
                        num_sq |-> b.set.num_sq,
                        lattice_size |-> cuParamSeti(sq.lattice_size)],
               !.q_marshall = b.q_marshall,
               !.p_marshall = b.p_marshall,
               !.sq_marshall = b.sq_marshall]
    /\ h' = [h EXCEPT !.r.batch_calls = Inc(@), !.r.q_chunks = 0,
                      !.r.p_chunks = 0]
    /\ pc' = "q_loop"
    /\ UNCHANGED <<soa, fnd, stop, expired, input, scan, sq, gpu, gen>>

\* A copy that always starts at the head of the host array.
MemcpyFromStart(old, done, n) == IF n = 0 THEN old ELSE [from |-> 0, n |-> n]

\* memcpy(marshall, array + done, n * sizeof(...)), for both arrays.
Memcpy(old, done, n) == IF n = 0 THEN old ELSE [from |-> done, n |-> n]

\* Head of the large-value loop.
QLoop ==
    /\ pc = "q_loop"
    /\ IF b.num_q_done < sq.q_num_p /\ CurrNumQ # 0
       THEN /\ b' = [b EXCEPT !.curr_num_q = CurrNumQ,
                              !.q_marshall =
                                  Memcpy(b.q_marshall, b.num_q_done,
                                         CurrNumQ),
                              !.set.num_q = CurrNumQ,
                              !.num_blocks = NumBlocks(CurrNumQ),
                              !.num_p_done = 0]
            /\ h' = [h EXCEPT !.r.q_chunks = Inc(@), !.r.p_chunks = 0]
            /\ pc' = "p_loop"
       ELSE /\ b' = [b EXCEPT !.ret = 0]
            /\ h' = h
            /\ pc' = "batch_ret"
    /\ UNCHANGED <<soa, fnd, stop, expired, input, scan, sq, gpu, gen>>

\* Head of the small-value loop.
PLoop ==
    /\ pc = "p_loop"
    /\ IF b.num_p_done < sq.p_num_p
       THEN /\ b' = [b EXCEPT !.curr_num_p = CurrNumP,
                              !.p_marshall =
                                  Memcpy(b.p_marshall, b.num_p_done,
                                         CurrNumP),
                              !.set.num_p = CurrNumP,
                              !.num_sq_done = 0]
            /\ h' = [h EXCEPT !.r.p_chunks = Inc(@)]
            /\ pc' = "sq_loop"
       ELSE /\ b' = [b EXCEPT !.num_q_done = @ + b.curr_num_q]
            /\ h' = h
            /\ pc' = "q_loop"
    /\ UNCHANGED <<soa, fnd, stop, expired, input, scan, sq, gpu, gen>>

\* Head of the special-value loop.
SqLoop ==
    /\ pc = "sq_loop"
    /\ IF b.num_sq_done < sq.sq_num_p
       THEN /\ b' = [b EXCEPT !.curr_num_sq = CurrNumSq,
                              !.sq_marshall =
                                  Memcpy(b.sq_marshall, b.num_sq_done,
                                         CurrNumSq),
                              !.set.num_sq = CurrNumSq]
            /\ pc' = "launch"
       ELSE /\ b' = [b EXCEPT !.num_p_done = @ + b.curr_num_p]
            /\ pc' = "deadline"
    /\ UNCHANGED <<soa, fnd, stop, expired, input, scan, sq, gpu, gen, h>>

\* What the kernel is given by a launch: the first set.num_* entries of
\* each transfer buffer, which are host entries from the buffer's .from on.
Given == [q |-> <<b.q_marshall.from, b.set.num_q>>,
          p |-> <<b.p_marshall.from, b.set.num_p>>,
          sq |-> <<b.sq_marshall.from, b.set.num_sq>>]

\* cuLaunchGrid(gpu_kernel, num_blocks, 1).
Launch ==
    /\ pc = "launch"
    /\ h' = [h EXCEPT !.r.launches = Inc(@),
                      !.r.after_stop = IF stop THEN Inc(@) ELSE @,
                      !.r.after_saw = IF h.r.saw_stop \/ h.r.saw_deadline
                                      THEN Inc(@) ELSE @,
                      !.r.kernels = @ \cup {b.gpu_kernel},
                      !.r.grids = @ \cup {b.num_blocks}]
    /\ b' = IF Len(b.log) < MaxLog
            THEN [b EXCEPT !.log = Append(@, Given)]
            ELSE [b EXCEPT !.truncated = TRUE]
    /\ pc' = "reduce"
    /\ UNCHANGED <<soa, fnd, stop, expired, input, scan, sq, gpu, gen>>

\* check_found called once num_sq_done has moved on.
SqOffsetAdvanced == b.num_sq_done + b.curr_num_sq

\* The sq_offset argument of check_found.
SqOffset == b.num_sq_done

\* The indices k a hit record of the launch may carry: the kernel was
\* given set.num_sq special values.
HitKs == { 0, b.set.num_sq - 1 } \cap (0 .. b.set.num_sq - 1)

\* sq_array->p[f->k + sq_offset]
Lookup(k, sq_offset) == [k |-> k, index |-> k + sq_offset]

\* The number of found records copied back and passed to check_found.
RecordsScanned == b.num_blocks * sq.threads_per_block

\* cuMemcpyDtoH and check_found over num_blocks * threads_per_block
\* records, of which hits have p != 0.
Reduce ==
    /\ pc = "reduce"
    /\ \E hits \in 0 .. MIN(MaxHits, RecordsScanned) :
         IF hits = 0
         THEN h' = [h EXCEPT !.r.lookup = NoLookup]
         ELSE \E k \in HitKs :
                h' = [h EXCEPT !.r.handled = MIN(MaxHandled, @ + hits),
                               !.r.lookup = Lookup(k, SqOffset)]
    /\ pc' = "poll_stop"
    /\ UNCHANGED <<soa, fnd, stop, expired, input, scan, sq, gpu, gen, b>>

\* A poll that never sees the flag.
StopSeenNever == FALSE

\* if (obj->flags & MSIEVE_FLAG_STOP_SIEVING) return 1;
StopSeen == stop

PollStop ==
    /\ pc = "poll_stop"
    /\ IF StopSeen
       THEN /\ b' = [b EXCEPT !.ret = 1]
            /\ h' = [h EXCEPT !.r.saw_stop = TRUE]
            /\ pc' = "batch_ret"
       ELSE /\ b' = [b EXCEPT !.num_sq_done = @ + b.curr_num_sq]
            /\ h' = h
            /\ pc' = "sq_loop"
    /\ UNCHANGED <<soa, fnd, stop, expired, input, scan, sq, gpu, gen>>

\* A poll that never sees the deadline.
DeadlineSeenNever == FALSE

\* if (elapsed > L->deadline) return 1;
DeadlineSeen == expired

PollDeadline ==
    /\ pc = "deadline"
    /\ IF DeadlineSeen
       THEN /\ b' = [b EXCEPT !.ret = 1]
            /\ h' = [h EXCEPT !.r.saw_deadline = TRUE,
                              !.r.dl_polls = Inc(@)]
            /\ pc' = "batch_ret"
       ELSE /\ b' = b
            /\ h' = [h EXCEPT !.r.dl_polls = Inc(@)]
            /\ pc' = "p_loop"
    /\ UNCHANGED <<soa, fnd, stop, expired, input, scan, sq, gpu, gen>>

\* The result of the batch call dropped.
QuitDropped(batch_ret) == 0

\* quit = sieve_lattice_batch(...) and the three while (!quit) conditions.
QuitFrom(batch_ret) == batch_ret

BatchReturn ==
    /\ pc = "batch_ret"
    /\ sq' = [sq EXCEPT !.quit = QuitFrom(b.ret)]
    /\ pc' = IF QuitFrom(b.ret) # 0 THEN "free_p" ELSE "fill_sq"
    /\ UNCHANGED <<soa, fnd, stop, expired, input, scan, gpu, gen, b, h>>


(***************************************************************************)
(* sieve_specialq_64: release and return.                                  *)
(***************************************************************************)
SqFreeP ==
    /\ pc = "free_p"
    /\ gpu' = [gpu EXCEPT !.gpu_p_array = Free(@)]
    /\ pc' = "free_q"
    /\ UNCHANGED <<soa, fnd, stop, expired, input, scan, sq, gen, b, h>>

SqFreeQ ==
    /\ pc = "free_q"
    /\ gpu' = [gpu EXCEPT !.gpu_q_array = Free(@)]
    /\ pc' = "free_sq"
    /\ UNCHANGED <<soa, fnd, stop, expired, input, scan, sq, gen, b, h>>

SqFreeSq ==
    /\ pc = "free_sq"
    /\ gpu' = [gpu EXCEPT !.gpu_sq_array = Free(@)]
    /\ pc' = "free_found"
    /\ UNCHANGED <<soa, fnd, stop, expired, input, scan, sq, gen, b, h>>

SqFreeFound ==
    /\ pc = "free_found"
    /\ gpu' = [gpu EXCEPT !.gpu_found_array = Free(@)]
    /\ pc' = "sq_ret"
    /\ UNCHANGED <<soa, fnd, stop, expired, input, scan, sq, gen, b, h>>

\* The host buffers are freed and quit is returned; the locals of the
\* invocation are gone.
SqReturn ==
    /\ pc = "sq_ret"
    /\ sq' = [SqIdle EXCEPT !.ret = sq.quit]
    /\ b' = BatchIdle
    /\ pc' = "after_round"
    /\ UNCHANGED <<soa, fnd, stop, expired, input, scan, gpu, gen, h>>

(***************************************************************************)
(* sieve_lattice_gpu_sq: the rounds.                                       *)
(***************************************************************************)
\* The call of sieve_specialq_64 in round i.
ScanRound ==
    /\ pc = "round"
    /\ pc' = "select_kernel"
    /\ gpu' = GpuInit
    /\ h' = [h EXCEPT !.rounds = @ + 1,
                      !.r = [HistRound EXCEPT !.started_expired = expired]]
    /\ UNCHANGED <<soa, fnd, stop, expired, input, scan, sq, gen, b>>

\* large_p_max > (uint32)(-1) / P_SCALE, compared as doubles.
SlideOverflows(large_p_max) == ExceedsMax(large_p_max)

\* A slide that leaves the small range where it was.
SlideLargeOnly(s) == [s EXCEPT !.large_p_min = s.large_p_max,
                               !.large_p_max = MulScale(s.large_p_max)]

\* The ranges of the next round.
Slide(s) == [s EXCEPT !.large_p_min = s.large_p_max,
                      !.large_p_max = MulScale(s.large_p_max),
                      !.small_p_max = s.small_p_min,
                      !.small_p_min = DivScale(s.small_p_min)]

\* if (quit || large_p_max > (uint32)(-1) / P_SCALE) break; the slide; i++
\* and the loop condition i < 3.
ScanAfterRound ==
    /\ pc = "after_round"
    /\ h' = [h EXCEPT !.any_stopped = @ \/ sq.ret # 0]
    /\ IF sq.ret # 0 \/ SlideOverflows(scan.large_p_max)
       THEN /\ scan' = [scan EXCEPT !.quit = sq.ret]
            /\ pc' = "scan_exit"
       ELSE /\ scan' = [Slide(scan) EXCEPT !.quit = sq.ret, !.i = scan.i + 1]
            /\ pc' = IF scan.i + 1 < MAX_ROUNDS THEN "round" ELSE "scan_exit"
    /\ UNCHANGED <<soa, fnd, stop, expired, input, sq, gpu, gen, b>>

\* sieve_fb_free of both generators; return quit.
ScanExit ==
    /\ pc = "scan_exit"
    /\ scan' = [scan EXCEPT !.ret = scan.quit, !.fb_init = FALSE]
    /\ pc' = "done"
    /\ UNCHANGED <<soa, fnd, stop, expired, input, sq, gpu, gen, b, h>>

Next ==
    \/ SetStop \/ Expire \/ CudaFail
    \/ ScanGuard \/ ScanRound \/ ScanAfterRound \/ ScanExit
    \/ SqSelectKernel \/ SqAllocP \/ SqAllocQ \/ SqAllocSq \/ SqFuncAttr
    \/ SqAllocFound \/ FillQ \/ FillP \/ FillSq \/ BatchReturn
    \/ SqFreeP \/ SqFreeQ \/ SqFreeSq \/ SqFreeFound \/ SqReturn
    \/ BatchEnter \/ QLoop \/ PLoop \/ SqLoop \/ Launch \/ Reduce
    \/ PollStop \/ PollDeadline

Spec == Init /\ [][Next]_vars


(***************************************************************************)
(* The batch buffer p_soa_var_t: p_soa_var_init, p_soa_var_reset and       *)
(* store_p_soa.  The arrays p and root are sequences of num_p_alloc slots  *)
(* (slot j of the code is element j + 1); malloc'ed slots hold arbitrary   *)
(* values.                                                                 *)
(***************************************************************************)
MaxCap == 3
MaxRoots == 3
PVals == { 3, 5 }
RootVals == { 1, 2 }

\* The capacities tried: the small ones and the capacity 5 of the boundary
\* case.
Capacities == (0 .. MaxCap) \cup { 5 }

SeqsUpTo(S, n) == UNION { [1 .. k -> S] : k \in 0 .. n }

\* p_soa_var_init(soa, batch_size), garbage_p and garbage_root being what
\* xmalloc returned.
p_soa_var_init(batch_size, garbage_p, garbage_root) ==
    [num_p |-> 0, num_p_alloc |-> batch_size,
     p |-> garbage_p, root |-> garbage_root]

\* A reset that forgets the count.
p_soa_var_reset_keeps_count(s) == s

p_soa_var_reset(s) == [s EXCEPT !.num_p = 0]

\* The loop condition with the capacity test off by one.
StoreGoesOnPastEnd(s, i, num_roots) ==
    i < num_roots /\ s.num_p <= s.num_p_alloc

\* The condition of the for loop of store_p_soa.
StoreGoesOn(s, i, num_roots) == i < num_roots /\ s.num_p < s.num_p_alloc

RECURSIVE StoreFrom(_, _, _, _)
StoreFrom(s, p, roots, i) ==
    IF StoreGoesOn(s, i, Len(roots))
    THEN StoreFrom([s EXCEPT !.p[s.num_p + 1] = p,
                             !.root[s.num_p + 1] = roots[i + 1],
                             !.num_p = s.num_p + 1],
                   p, roots, i + 1)
    ELSE s

store_p_soa(s, p, roots) == StoreFrom(s, p, roots, 0)

\* The fields of the C structure.
Fields(s) == [num_p |-> s.num_p, num_p_alloc |-> s.num_p_alloc,
              p |-> s.p, root |-> s.root]

\* The history kept with the buffer: the entries offered since the last
\* reset (as far as the capacity goes) and the last call.
Offered(p, roots) == [j \in 1 .. Len(roots) |-> <<p, roots[j]>>]
Take(seq, n) == SubSeq(seq, 1, MIN(n, Len(seq)))

\* How full the buffer was when it was last reset.
ResetKind(s) == IF s.num_p = 0 THEN "empty"
                ELSE IF s.num_p < s.num_p_alloc THEN "partial" ELSE "full"

SoaInitStates ==
    UNION { { p_soa_var_init(cap, gp, gr) @@
              [since |-> <<>>, reset_from |-> "never",
               last |-> [op |-> "init", num_roots |-> 0, stored |-> 0]] :
              gp \in { [j \in 1 .. cap |-> g] : g \in PVals },
              gr \in { [j \in 1 .. cap |-> g] : g \in RootVals } } :
            cap \in Capacities }

SoaStore ==
    /\ \E p \in PVals : \E roots \in SeqsUpTo(RootVals, MaxRoots) :
         soa' = store_p_soa(Fields(soa), p, roots) @@
                [since |-> Take(soa.since \o Offered(p, roots),
                                soa.num_p_alloc),
                 reset_from |-> soa.reset_from,
                 last |-> [op |-> "store", num_roots |-> Len(roots),
                           stored |-> store_p_soa(Fields(soa), p, roots).num_p
                                      - soa.num_p]]
    /\ UNCHANGED <<pc, stop, expired, input, scan, sq, gpu, gen, b, h, fnd>>

SoaReset ==
    /\ soa' = p_soa_var_reset(Fields(soa)) @@
              [since |-> <<>>, reset_from |-> ResetKind(soa),
               last |-> [op |-> "reset", num_roots |-> 0,
                         stored |-> 0]]
    /\ UNCHANGED <<pc, stop, expired, input, scan, sq, gpu, gen, b, h, fnd>>

InitSoa ==
    /\ pc = "done"
    /\ stop = FALSE
    /\ expired = FALSE
    /\ input = IdleInput
    /\ scan = ScanInit
    /\ sq = SqIdle
    /\ gpu = GpuInit
    /\ gen = GenInit
    /\ b = BatchIdle
    /\ h = HistInit
    /\ soa \in SoaInitStates
    /\ fnd = FndIdle

NextSoa == SoaStore \/ SoaReset

SpecSoa == InitSoa /\ [][NextSoa]_vars


(***************************************************************************)
(* Properties of the batch buffer.                                         *)
(***************************************************************************)
Entry(s, j) == <<s.p[j], s.root[j]>>

\* A step that is a store_p_soa call: the count grows by
\* min(num_roots, capacity - count), the new entries are the first roots
\* offered, in order, each with the value offered; the entries already
\* stored, the slots past the new count and the capacity do not change.
StoreEffect ==
    soa'.last.op = "store" =>
        LET n == MIN(soa'.last.num_roots, soa.num_p_alloc - soa.num_p) IN
        /\ soa'.last.stored = n
        /\ soa'.num_p = soa.num_p + n
        /\ soa'.num_p_alloc = soa.num_p_alloc
        /\ Len(soa'.p) = soa.num_p_alloc /\ Len(soa'.root) = soa.num_p_alloc
        /\ \A j \in 1 .. soa.num_p : Entry(soa', j) = Entry(soa, j)
        /\ \A j \in 1 .. n :
             Entry(soa', soa.num_p + j) = soa'.since[soa.num_p + j]
        /\ \A j \in (soa.num_p + n + 1) .. soa.num_p_alloc :
             Entry(soa', j) = Entry(soa, j)

\* C7: after p_soa_var_init and any sequence of p_soa_var_reset and
\* store_p_soa calls num_p <= num_p_alloc, and every store_p_soa call stores
\* exactly min(num_roots, capacity - count) entries, the first roots in
\* order with the given value, dropping the rest and leaving the stored
\* entries unchanged.
C7_BatchBufferBound ==
    /\ [](soa.num_p <= soa.num_p_alloc)
    /\ [][StoreEffect]_vars

\* Capacity 5, count 4, num_roots 3: one entry stored and two dropped.
C7_Witness ==
    /\ soa.last.op = "store"
    /\ soa.num_p_alloc = 5
    /\ soa.last.num_roots = 3
    /\ soa.last.stored = 1
    /\ soa.num_p = 5

\* The valid entries are the entries offered since the last reset.
ValidIsSince ==
    /\ soa.num_p = Len(soa.since)
    /\ \A j \in 1 .. soa.num_p : Entry(soa, j) = soa.since[j]

\* A step that is a p_soa_var_reset call empties the buffer and changes
\* neither the capacity nor the storage.
ResetFrame ==
    soa'.last.op = "reset" =>
        /\ soa'.num_p = 0
        /\ soa'.num_p_alloc = soa.num_p_alloc
        /\ soa'.p = soa.p
        /\ soa'.root = soa.root

\* C8: after a reset the buffer holds exactly the entries appended since,
\* in order (num_p = M for M <= capacity entries), none of an earlier
\* append; the reset changes neither the capacity nor the storage.
C8_ResetThenAppend ==
    /\ [](ValidIsSince)
    /\ [][ResetFrame]_vars

\* N < capacity entries, a reset, then M = 1 entry in a buffer of capacity
\* 3: one valid entry, the second slot still holding another, stale one.
C8_Witness ==
    /\ soa.num_p_alloc = 3
    /\ soa.reset_from = "partial"
    /\ soa.last.op = "store"
    /\ soa.num_p = 1
    /\ Len(soa.since) = 1
    /\ Entry(soa, 1) # Entry(soa, 2)


(***************************************************************************)
(* check_found.  A word (uint32) is WordBits wide: p, q and k are one      *)
(* word, proot, offset and p2 two words, the residue (uint128) four words  *)
(* w[0] .. w[3] (elements 1 .. 4 here).                                    *)
(***************************************************************************)
WordBits == 4
MaxFound == 2

WordMod == 2^WordBits
DWordMod == WordMod * WordMod
QWordMod == DWordMod * DWordMod

\* p2 computed in one word: the cast to uint64 forgotten.
P2Narrow(p) == (p * p) % WordMod

\* p2 = (uint64)f->p * f->p
P2(p) == (p * p) % DWordMod

\* proot.w[0] = (uint32)f->proot; proot.w[1] = (uint32)(f->proot >> 32);
\* proot.w[2] = 0; proot.w[3] = 0;
Proot128(proot) ==
    << proot % WordMod, (proot \div WordMod) % WordMod, 0, 0 >>

\* cpu_intrinsics.h is not among the source files: mul64 is the full
\* product of the signed offset and p2 as a uint128 (two's complement), and
\* add128 the sum modulo 2^128, carried from word to word.
Words128(x) ==
    LET u == x % QWordMod IN
    << u % WordMod, (u \div WordMod) % WordMod,
       (u \div DWordMod) % WordMod, (u \div (DWordMod * WordMod)) % WordMod >>

mul64(a, bb) == Words128(a * bb)

add128(x, y) ==
    LET s1 == x[1] + y[1]
        s2 == x[2] + y[2] + s1 \div WordMod
        s3 == x[3] + y[3] + s2 \div WordMod
        s4 == x[4] + y[4] + s3 \div WordMod
    IN  << s1 % WordMod, s2 % WordMod, s3 % WordMod, s4 % WordMod >>

\* The residue check_found passes to handle_collision for record f.
Residue(f) == add128(Proot128(f.proot), mul64(f.offset, P2(f.p)))

\* The host buffer of special-value candidates the records index.
SqArrayP == << 11, 13, 17 >>
SqArrayRoot == << 21, 23, 27 >>

\* One iteration of the loop of check_found.
CallsAfter(calls, f, sq_offset) ==
    IF f.p = 0
    THEN calls
    ELSE Append(calls, [p |-> f.p, q |-> f.q,
                        sq_p |-> SqArrayP[f.k + sq_offset + 1],
                        sq_root |-> SqArrayRoot[f.k + sq_offset + 1],
                        res |-> Residue(f)])

\* The records a kernel may leave: no hit (p = 0, the other fields
\* whatever they were), or a hit with values at the ends of their ranges.
FoundRecords ==
    { [p |-> 0, q |-> 0, k |-> 0, proot |-> 0, offset |-> 0] }
    \cup
    [ p : { 1, WordMod - 1 }, q : { 7 }, k : { 0, 1 },
      proot : { 0, DWordMod - 1 },
      offset : { -(DWordMod \div 2), -1, 1, DWordMod \div 2 - 1 } ]

InitFound ==
    /\ pc = "done"
    /\ stop = FALSE
    /\ expired = FALSE
    /\ input = IdleInput
    /\ scan = ScanInit
    /\ sq = SqIdle
    /\ gpu = GpuInit
    /\ gen = GenInit
    /\ b = BatchIdle
    /\ h = HistInit
    /\ soa = SoaIdle
    /\ \E n \in 1 .. MaxFound : \E fa \in [1 .. n -> FoundRecords] :
       \E off \in { 0, 1 } :
         fnd = [found_array |-> fa, sq_offset |-> off, i |-> 0,
                calls |-> <<>>]

CheckFoundStep ==
    /\ fnd.i < Len(fnd.found_array)
    /\ fnd' = [fnd EXCEPT
                 !.i = @ + 1,
                 !.calls = CallsAfter(@, fnd.found_array[fnd.i + 1],
                                      fnd.sq_offset)]
    /\ UNCHANGED <<pc, stop, expired, input, scan, sq, gpu, gen, b, h, soa>>

NextFound == CheckFoundStep

SpecFound == InitFound /\ [][NextFound]_vars

(***************************************************************************)
(* Properties of check_found.                                              *)
(***************************************************************************)
Value128(w) ==
    w[1] + w[2] * WordMod + w[3] * DWordMod + w[4] * DWordMod * WordMod

\* The records with p != 0 among the first n, in order.
RECURSIVE Hits(_, _)
Hits(fa, n) ==
    IF n = 0 THEN <<>>
    ELSE IF fa[n].p = 0 THEN Hits(fa, n - 1)
         ELSE Append(Hits(fa, n - 1), fa[n])

\* C6: every scanned record with p != 0 has produced exactly one
\* handle_collision call and the records with p = 0 none; the residue passed
\* is proot + offset * p^2 as a 128-bit value, also when offset * p^2 does
\* not fit in 64 bits.
C6_Reduction ==
    LET hits == Hits(fnd.found_array, fnd.i) IN
    /\ Len(fnd.calls) = Len(hits)
    /\ \A j \in 1 .. Len(hits) :
         /\ fnd.calls[j].p = hits[j].p
         /\ Value128(fnd.calls[j].res) =
              (hits[j].proot + hits[j].offset * hits[j].p * hits[j].p)
                  % QWordMod

\* A whole array scanned, a record with p = 0 skipped and a call made for a
\* record whose offset * p^2 needs more than 64 bits.
C6_Witness ==
    /\ fnd.i = Len(fnd.found_array)
    /\ fnd.i = 2
    /\ \E j \in 1 .. 2 : fnd.found_array[j].p = 0
    /\ Len(fnd.calls) = 1
    /\ \E j \in 1 .. 2 :
         LET f == fnd.found_array[j] IN
         /\ f.p # 0
         /\ f.offset * f.p * f.p >= DWordMod


(***************************************************************************)
(* Properties of the driver and of the scanner.                            *)
(***************************************************************************)
\* Positions inside an invocation of sieve_specialq_64.
InSq == h.rounds >= 1 /\ pc \notin {"done", "scan_exit", "round", "fatal"}

\* sieve_specialq_64 has just returned sq.ret.
SqReturned == pc = "after_round"

\* A launch is always followed by its reduce and the reduce by the poll of
\* the stop flag (unless the accelerator operation fails).
LaunchThenPoll ==
    /\ (pc = "launch" /\ pc' # pc) => pc' \in {"reduce", "fatal"}
    /\ (pc = "reduce" /\ pc' # pc) => pc' \in {"poll_stop", "fatal"}
    /\ (pc = "poll_stop" /\ pc' # pc /\ stop) =>
           (pc' = "batch_ret" /\ b'.ret = 1)

FirstBatchesFilled ==
    /\ input.nq >= input.dev.tpb
    /\ input.np >= 1
    /\ input.nsq >= 1

\* What holds of an invocation that started after the deadline.
LateStart ==
    /\ (pc \in {"launch", "reduce", "poll_stop"}) =>
          (h.r.batch_calls = 1 /\ h.r.q_chunks = 1 /\ h.r.p_chunks = 1)
    /\ h.r.dl_polls <= 1
    /\ h.r.batch_calls <= 1

\* C2 as stated: an invocation that starts after the deadline returns
\* stopped.
C2_LateStartReturnsStopped ==
    (SqReturned /\ h.r.started_expired) => sq.ret = 1

\* C2, amended: an invocation that starts after the deadline launches only
\* the special-value chunks of the first small-value chunk of the first
\* large-value chunk and, if its first host batches are not empty, returns
\* stopped; the deadline is polled only when a small-value chunk has
\* finished all its special-value chunks, and once it has fired no launch,
\* chunk or host batch follows.
C2_Deadline ==
    /\ (InSq /\ h.r.started_expired) => LateStart
    /\ (SqReturned /\ h.r.started_expired /\ FirstBatchesFilled) =>
          sq.ret = 1
    /\ pc = "deadline" =>
          (b.num_sq_done >= sq.sq_num_p /\ h.r.p_chunks >= 1)
    /\ (h.r.saw_deadline /\ InSq) =>
          /\ h.r.after_saw = 0
          /\ pc \in {"batch_ret", "free_p", "free_q", "free_sq",
                     "free_found", "sq_ret", "after_round"}

\* Late start, two special-value chunks launched, the deadline poll fired
\* and the invocation returned stopped without the stop flag.
C2_Witness ==
    /\ SqReturned
    /\ h.r.started_expired
    /\ h.r.saw_deadline
    /\ ~h.r.saw_stop
    /\ h.r.launches = 2
    /\ h.r.batch_calls = 1 /\ h.r.q_chunks = 1 /\ h.r.p_chunks = 1
    /\ sq.ret = 1

\* C3: sieve_specialq_64 returns stopped exactly when a stop or deadline
\* poll fired and completed exactly when its loops ended by exhaustion;
\* sieve_lattice_gpu_sq starts no round after a stopped one, returns stopped
\* then, and returns completed only if every round returned completed.
C3_Outcome ==
    /\ SqReturned =>
          /\ sq.ret \in {0, 1}
          /\ sq.ret = 1 <=> (h.r.saw_stop \/ h.r.saw_deadline)
          /\ sq.ret = 0 <=> h.r.exhausted
    /\ h.any_stopped => pc \in {"scan_exit", "done"}
    /\ (pc = "done" /\ h.rounds >= 1) =>
          (scan.ret # 0 <=> h.any_stopped)

\* The second round was stopped and the scan returned stopped.
C3_Witness ==
    /\ pc = "done"
    /\ h.rounds = 2
    /\ h.any_stopped
    /\ h.r.launches >= 1
    /\ scan.ret = 1

\* The four device buffers.
GpuBuffers == { gpu.gpu_p_array, gpu.gpu_q_array, gpu.gpu_sq_array,
                gpu.gpu_found_array }
DeviceOps == { "batch_enter", "q_loop", "p_loop", "sq_loop", "launch",
               "reduce", "poll_stop", "deadline", "batch_ret" }

\* C4: every invocation allocates each of the four device buffers exactly
\* once and has freed each exactly once when it ends, whether it completed,
\* was stopped or ended by the failure of an accelerator operation; no
\* buffer is used after it was freed.
C4_ReleasedOnEveryExit ==
    /\ \A buf \in GpuBuffers : buf.allocs <= 1 /\ buf.frees <= buf.allocs
    /\ (h.rounds >= 1 /\ pc = "after_round") =>
          \A buf \in GpuBuffers : buf.allocs = 1
    /\ (h.rounds >= 1 /\ pc \in {"after_round", "fatal"}) =>
          \A buf \in GpuBuffers :
              buf.frees = buf.allocs /\ buf.state # "alloc"
    /\ pc \in DeviceOps => \A buf \in GpuBuffers : buf.state = "alloc"

\* C5: an invocation whose large generator yields fewer than
\* threads_per_block candidates issues no launch, makes no handler call and
\* returns completed.
C5_TooFewLarge ==
    (h.rounds >= 1 /\ input.nq < input.dev.tpb) =>
        /\ h.r.launches = 0
        /\ h.r.handled = 0
        /\ SqReturned => sq.ret = 0

\* One candidate short of a block, the stop flag set and the deadline
\* passed: no launch and completed.
C5_Witness ==
    /\ SqReturned
    /\ input.nq = input.dev.tpb - 1
    /\ input.nq > 0
    /\ stop /\ expired
    /\ h.r.launches = 0
    /\ sq.ret = 0

\* sqrt(p_size_max / special_q_max) * P_SCALE exceeds the 32-bit maximum.
RangeTooLarge ==
    input.sqrt4 * P_SCALE_NUM > 4 * UINT32_MAX * P_SCALE_DEN

\* C9: when sqrt(p_size_max / special_q_max) * P_SCALE exceeds the 32-bit
\* maximum the scan ends with a configuration error the caller can tell
\* from a completed scan (which returns 0), before any generator is
\* initialised, any round is run or any buffer is allocated.
C9_ConfigError ==
    (pc = "done" /\ RangeTooLarge) =>
        /\ h.cfg_error
        /\ scan.ret # 0
        /\ h.rounds = 0
        /\ \A buf \in GpuBuffers : buf.allocs = 0

\* C10 as stated: after a completed round whose large upper bound is below
\* the 32-bit maximum (and that was not the last of the three) the next
\* round runs with the slid ranges.
SlidRanges ==
    /\ pc' = "round"
    /\ scan'.large_p_min = scan.large_p_max
    /\ scan'.large_p_max = (scan.large_p_max * P_SCALE_NUM) \div P_SCALE_DEN
    /\ scan'.small_p_max = scan.small_p_min
    /\ scan'.small_p_min = (scan.small_p_min * P_SCALE_DEN) \div P_SCALE_NUM
    /\ scan'.special_q_min = scan.special_q_min
    /\ scan'.special_q_max = scan.special_q_max

RoundCompleted ==
    /\ pc = "after_round" /\ pc' # pc
    /\ sq.ret = 0
    /\ scan.i + 1 < MAX_ROUNDS

C10_SlideBelowCeiling ==
    [][(RoundCompleted /\ scan.large_p_max < UINT32_MAX) => SlidRanges]_vars

\* C10, amended: after a completed round that was not the third and whose
\* large upper bound b satisfies b <= (2^32 - 1) / P_SCALE, the next round
\* runs with large range [b, b * P_SCALE] and small range [c / P_SCALE, c],
\* both rounded down, and the same special-value range.
C10_Slide ==
    [][(RoundCompleted
        /\ scan.large_p_max * P_SCALE_NUM <= UINT32_MAX * P_SCALE_DEN)
       => SlidRanges]_vars

\* The second round of a scan that started with large [40, 60] and small
\* [26, 39].
C10_Witness ==
    /\ pc = "round"
    /\ scan.i = 1
    /\ scan.large_p_min = 60 /\ scan.large_p_max = 90
    /\ scan.small_p_min = 17 /\ scan.small_p_max = 26


\* A round is about to run or is running with the ranges in scan.
RoundRuns == pc = "round" \/ InSq

RoundStartsOnlyAfterCompleted ==
    (pc = "after_round" /\ pc' = "round") =>
        /\ sq.ret = 0
        /\ scan.large_p_max * P_SCALE_NUM <= UINT32_MAX * P_SCALE_DEN

InBatch == pc \in { "q_loop", "p_loop", "sq_loop", "launch", "reduce",
                    "poll_stop", "deadline", "batch_ret" }

TypesOf(params) == [n \in 1 .. Len(params) |-> params[n].type]
NamesOf(params) == [n \in 1 .. Len(params) |-> params[n].name]

\* The end of the field before field n.
EndBefore(params, n) ==
    IF n = 1 THEN 0 ELSE params[n - 1].offset + params[n - 1].size

\* Each field is at the first offset at or after the end of the one before
\* that is a multiple of its native size; no two fields overlap; the size
\* is the end of the last field.
WellLaidOut(params, size) ==
    /\ \A n \in 1 .. Len(params) :
         LET f == params[n]
             native == IF f.type = "ptr" THEN input.ptr
                       ELSE IF f.type = "uint64" THEN 8 ELSE 4
         IN  /\ f.size = native
             /\ f.offset % native = 0
             /\ f.offset >= EndBefore(params, n)
             /\ f.offset - EndBefore(params, n) < native
    /\ \A m, n \in 1 .. Len(params) :
         m < n => params[m].offset + params[m].size <= params[n].offset
    /\ Len(params) > 0
    /\ size = params[Len(params)].offset + params[Len(params)].size

RECURSIVE SumLen(_)
SumLen(chunks) ==
    IF chunks = {} THEN 0
    ELSE LET c == CHOOSE x \in chunks : TRUE
         IN  c[2] + SumLen(chunks \ {c})

\* The chunks launched earlier in the call at each level: large-value
\* chunks before the current one, small-value chunks before the current one
\* under the current large-value chunk, special-value chunks before the
\* current one under the current small-value chunk.
LogIndex == 1 .. Len(b.log)
EarlierQ == { b.log[n].q : n \in { m \in LogIndex :
                  b.log[m].q[1] < b.num_q_done } }
EarlierP == { b.log[n].p : n \in { m \in LogIndex :
                  /\ b.log[m].q = Given.q
                  /\ b.log[m].p[1] < b.num_p_done } }
EarlierSq == { b.log[n].sq : n \in { m \in LogIndex :
                  /\ b.log[m].q = Given.q
                  /\ b.log[m].p = Given.p
                  /\ b.log[m].sq[1] < b.num_sq_done } }

Min3(x, y, z) == IF x <= y /\ x <= z THEN x ELSE IF y <= z THEN y ELSE z
RoundedDown(x, m) == x - (x % m)

\* The three chunk sizes when a launch is about to be issued.
ChunkPolicy ==
    (pc = "launch" /\ ~b.truncated) =>
        /\ b.curr_num_q =
             RoundedDown(Min3(3 * sq.found_array_size,
                              sq.q_num_p - SumLen(EarlierQ),
                              Q_SOA_BATCH_SIZE), sq.threads_per_block)
        /\ b.curr_num_p =
             Min3(sq.found_array_size \div 3,
                  sq.p_num_p - SumLen(EarlierP), P_SOA_BATCH_SIZE)
        /\ b.curr_num_sq =
             IF SPECIALQ_BATCH_SIZE <= sq.sq_num_p - SumLen(EarlierSq)
             THEN SPECIALQ_BATCH_SIZE
             ELSE sq.sq_num_p - SumLen(EarlierSq)

\* A large-value chunk of size 0 ends the loop and the call returns 0.
ZeroChunkEnds ==
    (/\ pc = "q_loop" /\ pc' # pc
     /\ RoundedDown(Min3(3 * sq.found_array_size,
                         sq.q_num_p - b.num_q_done, Q_SOA_BATCH_SIZE),
                    sq.threads_per_block) = 0)
    => (pc' = "batch_ret" /\ b'.ret = 0)

\* C13: every large-value chunk has size min(3 * found_array_size,
\* remaining, Q_SOA_BATCH_SIZE) rounded down to a multiple of
\* threads_per_block and the large-value loop ends without error when that
\* is 0; every small-value chunk has size min(found_array_size / 3,
\* remaining, P_SOA_BATCH_SIZE) and every special-value chunk
\* min(SPECIALQ_BATCH_SIZE, remaining), neither rounded; remaining is the
\* buffered count minus the sum of the earlier chunks at that level.
C13_ChunkPolicy == [](ChunkPolicy) /\ [][ZeroChunkEnds]_vars

\* The second large-value chunk of a host batch, rounded down, with a
\* small-value chunk cut to P_SOA_BATCH_SIZE that is not the first.
C13_Witness ==
    /\ pc = "launch"
    /\ ~b.truncated
    /\ b.num_q_done > 0
    /\ b.curr_num_q < sq.q_num_p - b.num_q_done
    /\ b.curr_num_q < Q_SOA_BATCH_SIZE
    /\ b.num_p_done > 0
    /\ b.curr_num_p = P_SOA_BATCH_SIZE
    /\ sq.found_array_size \div 3 > P_SOA_BATCH_SIZE


\* C14: every launch uses grid width num_compute_units, except when the
\* current large-value chunk is smaller than found_array_size, where it
\* uses chunk / threads_per_block; the grid width is at least 1 and
\* grid width * threads_per_block, the number of found records copied back
\* and scanned, never exceeds found_array_size.
C14_GridWidth ==
    (pc \in {"launch", "reduce", "poll_stop"}) =>
        /\ b.curr_num_q < sq.found_array_size =>
              b.num_blocks = b.curr_num_q \div sq.threads_per_block
        /\ b.curr_num_q >= sq.found_array_size =>
              b.num_blocks = input.dev.ncu
        /\ b.num_blocks >= 1
        /\ b.num_blocks * sq.threads_per_block <= sq.found_array_size
        /\ RecordsScanned = b.num_blocks * sq.threads_per_block
        /\ RecordsScanned <= sq.found_array_size

\* Two compute units and a chunk of one block: the grid is one block wide
\* and half of the output buffer is scanned.
C14_Witness ==
    /\ pc = "reduce"
    /\ input.dev.ncu = 2
    /\ b.curr_num_q = sq.threads_per_block
    /\ b.curr_num_q < sq.found_array_size
    /\ b.num_blocks = 1
    /\ RecordsScanned < sq.found_array_size


\* The variant the invocation has to use.
VariantFor(large_p_max) ==
    IF large_p_max >= 16777216 THEN "sieve_kernel_64" ELSE "sieve_kernel_48"

\* C15: each invocation of sieve_specialq_64 selects its kernel exactly
\* once, before any buffer is filled or any launch is issued, and uses that
\* kernel for every launch: sieve_kernel_48 when large_p_max < 2^24,
\* sieve_kernel_64 when large_p_max >= 2^24.
C15_KernelVariant ==
    /\ h.r.selects <= 1
    /\ (h.r.selects = 0 /\ h.rounds >= 1) =>
          /\ pc \in {"select_kernel", "fatal"}
          /\ h.r.launches = 0
          /\ sq.q_num_p = 0 /\ sq.p_num_p = 0 /\ sq.sq_num_p = 0
    /\ (InSq /\ pc # "select_kernel") =>
          /\ h.r.selects = 1
          /\ ~SqReturned => sq.gpu_kernel = VariantFor(scan.large_p_max)
          /\ h.r.kernels \subseteq { VariantFor(scan.large_p_max) }

\* An invocation with large_p_max >= 2^24 that launched the wider kernel
\* more than once and nothing else.
C15_Witness ==
    /\ SqReturned
    /\ scan.large_p_max >= 16777216
    /\ h.r.launches >= 2
    /\ h.r.selects = 1
    /\ h.r.kernels = { "sieve_kernel_64" }


\* check_found has just handled a hit record of the last launch.
HitHandled == pc = "poll_stop" /\ h.r.lookup.k >= 0

\* C16: with a batch-local index k smaller than the special-value count of
\* the launch, the index k + num_sq_done used by check_found is smaller
\* than sq_array->num_p and is the host entry that was copied to position k
\* of the special-value transfer buffer for that launch.
C16_ReduceLookup ==
    HitHandled =>
        /\ h.r.lookup.k < b.set.num_sq
        /\ h.r.lookup.index < sq.sq_num_p
        /\ h.r.lookup.k < b.sq_marshall.n
        /\ h.r.lookup.index = b.sq_marshall.from + h.r.lookup.k
        /\ ~b.truncated =>
              b.log[Len(b.log)].sq = <<b.sq_marshall.from, b.sq_marshall.n>>

\* A hit in the second special-value chunk: k = 0 is entry 256 of sq_array.
C16_Witness ==
    /\ HitHandled
    /\ b.num_sq_done = SPECIALQ_BATCH_SIZE
    /\ h.r.lookup.k = 0
    /\ h.r.lookup.index = SPECIALQ_BATCH_SIZE
    /\ sq.sq_num_p = SPECIALQ_BATCH_SIZE + 1


\* One level of marshalling: the copy read host entries done .. done +
\* chunk - 1, all of them buffered, it fits the transfer buffer, the
\* transfer buffer holds those entries from position 0 on, and the count set
\* for the kernel is the chunk size.
Marshalled(done, chunk, num_p, capacity, marshall, count) ==
    /\ done + chunk <= num_p
    /\ chunk <= capacity
    /\ chunk > 0 => (marshall.from = done /\ marshall.n = chunk)
    /\ count = chunk

\* C17: each copy into a transfer buffer reads host entries
\* [done, done + chunk) with done + chunk <= num_p and writes chunk <=
\* capacity entries, entry j of the transfer buffer is host entry done + j
\* for j < chunk, and the count bound to the kernel is chunk.
C17_MarshallingBounds ==
    /\ pc \in {"p_loop", "sq_loop", "launch", "reduce", "poll_stop"} =>
          Marshalled(b.num_q_done, b.curr_num_q, sq.q_num_p,
                     Q_SOA_BATCH_SIZE, b.q_marshall, b.set.num_q)
    /\ pc \in {"sq_loop", "launch", "reduce", "poll_stop"} =>
          Marshalled(b.num_p_done, b.curr_num_p, sq.p_num_p,
                     P_SOA_BATCH_SIZE, b.p_marshall, b.set.num_p)
    /\ pc \in {"launch", "reduce", "poll_stop"} =>
          Marshalled(b.num_sq_done, b.curr_num_sq, sq.sq_num_p,
                     SPECIALQ_BATCH_SIZE, b.sq_marshall, b.set.num_sq)

\* The last large-value chunk and the last small-value chunk of full host
\* buffers: both copies end exactly at or just below the buffered count.
C17_Witness ==
    /\ pc = "launch"
    /\ b.num_q_done > 0 /\ b.num_p_done > 0
    /\ b.num_p_done + b.curr_num_p = sq.p_num_p
    /\ sq.p_num_p = sq.host_p_batch_size
    /\ b.q_marshall.from = b.num_q_done
    /\ b.p_marshall = [from |-> b.num_p_done, n |-> b.curr_num_p]
    /\ b.curr_num_p < P_SOA_BATCH_SIZE
    /\ b.set.num_p = b.curr_num_p


\* sieve_lattice_batch is about to return 0 and its launches are all in
\* the log.
BatchCompleted == pc = "batch_ret" /\ b.ret = 0 /\ ~b.truncated

\* The number of special-value chunks per small-value chunk and of
\* small-value chunks per large-value chunk, read off the head of the log.
SqPerP(log) ==
    Cardinality({ n \in 1 .. Len(log) :
        \A m \in 1 .. n : log[m].q = log[1].q /\ log[m].p = log[1].p })
LaunchesPerQ(log) ==
    Cardinality({ n \in 1 .. Len(log) :
        \A m \in 1 .. n : log[m].q = log[1].q })

\* Chunks <<from, length>> that follow one another from entry 0 up to end,
\* none of them empty.
Tiles(chunks, end) ==
    /\ Len(chunks) > 0
    /\ chunks[1][1] = 0
    /\ \A n \in 1 .. Len(chunks) : chunks[n][2] > 0
    /\ \A n \in 1 .. Len(chunks) - 1 :
          chunks[n + 1][1] = chunks[n][1] + chunks[n][2]
    /\ chunks[Len(chunks)][1] + chunks[Len(chunks)][2] = end

\* The log is the product of three tilings, in nesting order.
Covers(log) ==
    LET r == SqPerP(log)
        nr == LaunchesPerQ(log)
        n == nr \div r
        m == Len(log) \div nr
        qs == [i \in 1 .. m |-> log[(i - 1) * nr + 1].q]
        ps == [j \in 1 .. n |-> log[(j - 1) * r + 1].p]
        sqs == [k \in 1 .. r |-> log[k].sq]
    IN  /\ Len(log) = m * n * r
        /\ \A i \in 1 .. m : \A j \in 1 .. n : \A k \in 1 .. r :
              log[(i - 1) * nr + (j - 1) * r + k] =
                  [q |-> qs[i], p |-> ps[j], sq |-> sqs[k]]
        /\ Tiles(qs, sq.q_num_p - (sq.q_num_p % sq.threads_per_block))
        /\ Tiles(ps, sq.p_num_p)
        /\ Tiles(sqs, sq.sq_num_p)

\* C18: when sieve_lattice_batch returns completed the chunks at each level
\* are contiguous and disjoint, the small-value chunks cover [0, p_num_p),
\* the special-value chunks [0, sq_num_p), the large-value chunks the prefix
\* of length q_num_p - (q_num_p mod threads_per_block), and every
\* combination of a large-, a small- and a special-value chunk is launched
\* exactly once, in that nesting order.
C18_Coverage == BatchCompleted => (Len(b.log) > 0 /\ Covers(b.log))

\* Five large-value candidates and blocks of two: one large-value chunk of
\* four, two small-value chunks and two special-value chunks, four
\* launches.
C18_Witness ==
    /\ BatchCompleted
    /\ sq.q_num_p = 5 /\ sq.threads_per_block = 2
    /\ sq.p_num_p = 2 /\ sq.sq_num_p = SPECIALQ_BATCH_SIZE + 1
    /\ Len(b.log) = 4
    /\ b.log[4] = [q |-> <<0, 4>>, p |-> <<1, 1>>,
                   sq |-> <<SPECIALQ_BATCH_SIZE, 1>>]


(***************************************************************************)
(* Termination.  The control thread keeps running: every step of the       *)
(* program that is enabled is eventually taken.  Nothing is assumed of the *)
(* stop flag, of the clock or of accelerator failures.                     *)
(***************************************************************************)
Program ==
    \/ ScanGuard \/ ScanRound \/ ScanAfterRound \/ ScanExit
    \/ SqSelectKernel \/ SqAllocP \/ SqAllocQ \/ SqAllocSq \/ SqFuncAttr
    \/ SqAllocFound \/ FillQ \/ FillP \/ FillSq \/ BatchReturn
    \/ SqFreeP \/ SqFreeQ \/ SqFreeSq \/ SqFreeFound \/ SqReturn
    \/ BatchEnter \/ QLoop \/ PLoop \/ SqLoop \/ Launch \/ Reduce
    \/ PollStop \/ PollDeadline

SpecLive == Init /\ [][Next]_vars /\ WF_vars(Program)

\* Every completed iteration of a chunk loop advances its done counter.
LoopsAdvance ==
    /\ (pc = "poll_stop" /\ pc' = "sq_loop") =>
          b'.num_sq_done > b.num_sq_done
    /\ (pc = "sq_loop" /\ pc' = "deadline") =>
          b'.num_p_done > b.num_p_done
    /\ (pc = "p_loop" /\ pc' = "q_loop") =>
          b'.num_q_done > b.num_q_done

\* C19: with generators that yield finitely many candidates every
\* invocation of sieve_specialq_64 eventually returns, and so does
\* sieve_lattice_gpu_sq, whether or not the stop flag is ever set or the
\* deadline ever expires; every iteration of each chunk loop of
\* sieve_lattice_batch advances its done counter by at least 1, also when
\* found_array_size / 3 is 0.
C19_Termination ==
    /\ <>(pc \in {"done", "fatal"})
    /\ [][LoopsAdvance]_vars


\* The slot of the lattice size in the parameter block.
LatticeSlot == b.params[7]

\* C20: the lattice-size parameter bound to the kernel carries the full
\* 64-bit value of lattice_size computed by sieve_specialq_64; all 8 bytes
\* of its slot are written and no high bits are lost.
C20_LatticeWidth ==
    InBatch =>
        /\ LatticeSlot.name = "lattice_size"
        /\ LatticeSlot.size = 8
        /\ LatticeSlot.written = 8
        /\ b.set.lattice_size = sq.lattice_size

=============================================================================
